---- MODULE Spec2Model ----
(***************************************************************************)
(* Category catalog (parent tree + similarity rows) of categories_app and  *)
(* the similarity-graph analysis of hole_analysis_script.py.               *)
(*                                                                         *)
(*   Spec       the REST API as a state machine over the stored catalog    *)
(*   GraphSpec  SimilarityGraph built from a stored catalog and analysed   *)
(***************************************************************************)
EXTENDS Integers, Sequences, FiniteSets, Bags, TLC

VARIABLES
    categories,       \* ids of the stored Category rows
    parent,           \* Category.parent_id of each stored row (None for a root)
    nextId,           \* next primary key the Category table hands out
    similarities,     \* bag of stored CategorySimilarity rows <<category_a, category_b>>
    response,         \* the response of the last completed request
    bulk,             \* position of a bulk_create request inside its loop
    inflight,         \* the move request each worker is in the middle of
    graph,            \* SimilarityGraph.graph: id -> set of neighbour ids
    graphCategories,  \* SimilarityGraph.categories: its keys, in dict order
    result            \* the value returned by the last analysis call

vars == <<categories, parent, nextId, similarities, response, bulk, inflight,
          graph, graphCategories, result>>

dbVars == <<categories, parent, nextId, similarities>>
graphVars == <<graph, graphCategories, result>>

----------------------------------------------------------------------------
(* Bounds of the model *)

MaxCat == 3      \* primary keys the Category table hands out: 1..MaxCat
MaxRows == 3     \* rows the CategorySimilarity table holds at most
MaxBulk == 2     \* items of one bulk_create request
MaxNode == 4     \* categories of an analysed snapshot
MaxEdges == 3    \* similarity rows of an analysed snapshot

None == 0        \* null=True: the parent of a root

Ids == 1..MaxCat

\* The workers that serve move requests side by side.
Workers == {1, 2}

\* A worker that is not inside a move request.
Idle == [pc |-> "idle", node |-> None, target |-> None]

----------------------------------------------------------------------------
(* Small helpers *)

Max(S) == CHOOSE x \in S : \A y \in S : y <= x
Min(S) == CHOOSE x \in S : \A y \in S : x <= y

Range(s) == {s[i] : i \in 1..Len(s)}

\* The permutations of a finite set, as sequences.
RECURSIVE Perms(_)
Perms(S) ==
    IF S = {} THEN {<<>>}
    ELSE UNION {{<<x>> \o p : p \in Perms(S \ {x})} : x \in S}

\* The members of S listed in the order in which `order` lists them.
RECURSIVE Listed(_, _)
Listed(S, order) ==
    IF order = <<>> THEN <<>>
    ELSE IF Head(order) \in S THEN <<Head(order)>> \o Listed(S, Tail(order))
    ELSE Listed(S, Tail(order))

\* The members of a set of ids in ascending order.
RECURSIVE Ascending(_)
Ascending(S) ==
    IF S = {} THEN <<>> ELSE <<Min(S)>> \o Ascending(S \ {Min(S)})

----------------------------------------------------------------------------
(* models.py: Category *)

\* self.children.all(): the rows whose parent is n.  Meta.ordering lists them
\* by name; the model names categories so that name order is id order.
Children(par, n) == Ascending({c \in DOMAIN par : par[c] = n})

\* Category.clean, the loop of lines 41-45.  A walk that has taken more steps
\* than there are rows is inside a cycle of parent links and never ends: "hang".
RECURSIVE CleanWalk(_, _, _, _)
CleanWalk(par, self, ancestor, steps) ==
    IF ancestor = None THEN "ok"
    ELSE IF ancestor = self THEN "circular"
    ELSE IF steps > Cardinality(DOMAIN par) THEN "hang"
    ELSE CleanWalk(par, self, par[ancestor], steps + 1)

\* Category.clean on the instance `self` whose parent field holds `proposed`.
Clean(par, self, proposed) ==
    IF proposed # None /\ proposed = self THEN "self_parent"
    ELSE CleanWalk(par, self, proposed, 0)

\* AncestorsLoop with append(current) in place of insert(0, current).
RECURSIVE AncestorsLoopAppend(_, _, _)
AncestorsLoopAppend(par, current, ancestors) ==
    IF current = None THEN [hang |-> FALSE, list |-> ancestors]
    ELSE IF Len(ancestors) >= Cardinality(DOMAIN par)
         THEN [hang |-> TRUE, list |-> ancestors]
    ELSE AncestorsLoopAppend(par, par[current], Append(ancestors, current))

\* Category.get_ancestors, the loop of lines 50-52: insert(0, current) puts
\* each parent in front of the ones found before it.  A list as long as the
\* table with a parent still to visit is on a cycle: the loop never ends.
RECURSIVE AncestorsLoop(_, _, _)
AncestorsLoop(par, current, ancestors) ==
    IF current = None THEN [hang |-> FALSE, list |-> ancestors]
    ELSE IF Len(ancestors) >= Cardinality(DOMAIN par)
         THEN [hang |-> TRUE, list |-> ancestors]
    ELSE AncestorsLoop(par, par[current], <<current>> \o ancestors)

get_ancestors(par, n) == AncestorsLoop(par, par[n], <<>>)

\* Category.get_depth, the loop of lines 67-69.
RECURSIVE DepthLoop(_, _, _)
DepthLoop(par, current, depth) ==
    IF current = None THEN [hang |-> FALSE, depth |-> depth]
    ELSE IF depth >= Cardinality(DOMAIN par)
         THEN [hang |-> TRUE, depth |-> depth]
    ELSE DepthLoop(par, par[current], depth + 1)

get_depth(par, n) == DepthLoop(par, par[n], 0)

\* DescendantsLoop without queue.extend(child.children.all()).
RECURSIVE DescendantsLoopChildrenOnly(_, _, _)
DescendantsLoopChildrenOnly(par, queue, descendants) ==
    IF queue = <<>> THEN [hang |-> FALSE, list |-> descendants]
    ELSE DescendantsLoopChildrenOnly(par, Tail(queue),
                                     Append(descendants, Head(queue)))

\* Category.get_descendants, the loop of lines 58-61.  A list longer than the
\* table repeats a row, so the queue never drains: hang.
RECURSIVE DescendantsLoop(_, _, _)
DescendantsLoop(par, queue, descendants) ==
    IF queue = <<>> THEN [hang |-> FALSE, list |-> descendants]
    ELSE IF Len(descendants) >= Cardinality(DOMAIN par)
         THEN [hang |-> TRUE, list |-> descendants]
    ELSE LET child == Head(queue)
         IN  DescendantsLoop(par, Tail(queue) \o Children(par, child),
                             Append(descendants, child))

get_descendants(par, n) == DescendantsLoop(par, Children(par, n), <<>>)

----------------------------------------------------------------------------
(* views.py / serializers.py: the category endpoints *)

Resp(op, node, target, status) ==
    [op |-> op, node |-> node, target |-> target, status |-> status]

\* POST /categories/ through CategoryCreateUpdateSerializer (instance is None,
\* so validate_parent returns the value unchecked).
CreateCategory(p) ==
    /\ nextId <= MaxCat
    /\ IF p # None /\ p \notin categories
       THEN /\ response' = Resp("create", None, p, "400")
            /\ UNCHANGED dbVars
       ELSE /\ categories' = categories \cup {nextId}
            /\ parent' = [c \in categories \cup {nextId} |->
                              IF c = nextId THEN p ELSE parent[c]]
            /\ nextId' = nextId + 1
            /\ response' = Resp("create", nextId, p, "201")
            /\ UNCHANGED similarities
    /\ UNCHANGED <<bulk, inflight, graphVars>>

\* CategoryCreateUpdateSerializer.validate_parent for an existing instance.
validate_parent(par, instance, value) ==
    IF value # None
    THEN LET descedants == get_descendants(par, instance)
         IN  IF descedants.hang THEN "hang"
             ELSE IF value \in Range(descedants.list) THEN "invalid"
             ELSE "valid"
    ELSE "valid"

\* PUT/PATCH /categories/<n>/ with a parent field.
UpdateCategory(n, p) ==
    /\ IF n \notin categories
       THEN /\ response' = Resp("update", n, p, "404")
            /\ UNCHANGED dbVars
       ELSE IF p # None /\ p \notin categories
       THEN /\ response' = Resp("update", n, p, "400")
            /\ UNCHANGED dbVars
       ELSE LET v == validate_parent(parent, n, p)
            IN  IF v = "hang"
                THEN /\ response' = Resp("update", n, p, "hang")
                     /\ UNCHANGED dbVars
                ELSE IF v = "invalid"
                THEN /\ response' = Resp("update", n, p, "400")
                     /\ UNCHANGED dbVars
                ELSE /\ parent' = [parent EXCEPT ![n] = p]
                     /\ response' = Resp("update", n, p, "200")
                     /\ UNCHANGED <<categories, nextId, similarities>>
    /\ UNCHANGED <<bulk, inflight, graphVars>>

\* CategoryDetailSerializer(category).data: its depth and ancestors fields
\* walk up from the category (serializers.py:48-53), and the depth of each
\* child walks through it, so the response is rendered when that walk ends.
Rendered(par, n) == IF get_depth(par, n).hang THEN "hang" ELSE "200"

\* Move with the test of views.py:126 (new_parent == category) left out.
MoveWithoutSelfTest(n, t) ==
    /\ IF n \notin categories
       THEN /\ response' = Resp("move", n, t, "404")
            /\ UNCHANGED dbVars
       ELSE IF t = None
       THEN /\ parent' = [parent EXCEPT ![n] = None]
            /\ response' = Resp("move", n, t, "200")
            /\ UNCHANGED <<categories, nextId, similarities>>
       ELSE IF t \notin categories
       THEN /\ response' = Resp("move", n, t, "404")
            /\ UNCHANGED dbVars
       ELSE LET d == get_descendants(parent, n)
            IN  IF d.hang
                THEN /\ response' = Resp("move", n, t, "hang")
                     /\ UNCHANGED dbVars
                ELSE IF t \in Range(d.list)
                THEN /\ response' = Resp("move", n, t, "400")
                     /\ UNCHANGED dbVars
                ELSE /\ parent' = [parent EXCEPT ![n] = t]
                     /\ response' = Resp("move", n, t, "200")
                     /\ UNCHANGED <<categories, nextId, similarities>>
    /\ UNCHANGED <<bulk, inflight, graphVars>>

\* Move with the assignment and save of lines 132-133 placed before the
\* descendant test: a move under a descendant is stored and then answered 400.
MoveSavesBeforeDescendantTest(n, t) ==
    /\ IF n \notin categories
       THEN /\ response' = Resp("move", n, t, "404")
            /\ UNCHANGED dbVars
       ELSE IF t = None
       THEN /\ parent' = [parent EXCEPT ![n] = None]
            /\ response' = Resp("move", n, t, "200")
            /\ UNCHANGED <<categories, nextId, similarities>>
       ELSE IF t \notin categories
       THEN /\ response' = Resp("move", n, t, "404")
            /\ UNCHANGED dbVars
       ELSE IF t = n
       THEN /\ response' = Resp("move", n, t, "400")
            /\ UNCHANGED dbVars
       ELSE LET d == get_descendants(parent, n)
            IN  IF d.hang
                THEN /\ response' = Resp("move", n, t, "hang")
                     /\ UNCHANGED dbVars
                ELSE /\ parent' = [parent EXCEPT ![n] = t]
                     /\ response' = Resp("move", n, t,
                                         IF t \in Range(d.list) THEN "400" ELSE "200")
                     /\ UNCHANGED <<categories, nextId, similarities>>
    /\ UNCHANGED <<bulk, inflight, graphVars>>

\* POST /categories/<n>/move/ {"parent": t}.
Move(n, t) ==
    /\ IF n \notin categories
       THEN /\ response' = Resp("move", n, t, "404")
            /\ UNCHANGED dbVars
       ELSE IF t = None
       THEN /\ parent' = [parent EXCEPT ![n] = None]
            /\ response' = Resp("move", n, t, "200")
            /\ UNCHANGED <<categories, nextId, similarities>>
       ELSE IF t \notin categories
       THEN /\ response' = Resp("move", n, t, "404")
            /\ UNCHANGED dbVars
       ELSE IF t = n
       THEN /\ response' = Resp("move", n, t, "400")
            /\ UNCHANGED dbVars
       ELSE LET d == get_descendants(parent, n)
            IN  IF d.hang
                THEN /\ response' = Resp("move", n, t, "hang")
                     /\ UNCHANGED dbVars
                ELSE IF t \in Range(d.list)
                THEN /\ response' = Resp("move", n, t, "400")
                     /\ UNCHANGED dbVars
                ELSE /\ parent' = [parent EXCEPT ![n] = t]
                     /\ response' = Resp("move", n, t, Rendered(parent', n))
                     /\ UNCHANGED <<categories, nextId, similarities>>
    /\ UNCHANGED <<bulk, inflight, graphVars>>

\* CategoryViewSet.move served by worker w, lines 111-130: the lookups and
\* the tests.  A request that passes them holds its category and new parent
\* in memory until MoveSave; nothing locks the rows in between.
MoveValidate(w, n, t) ==
    /\ inflight[w].pc = "idle"
    /\ IF n \notin categories
       THEN /\ response' = Resp("move", n, t, "404")
            /\ UNCHANGED inflight
       ELSE IF t = None
       THEN /\ inflight' = [inflight EXCEPT ![w] =
                                [pc |-> "save", node |-> n, target |-> t]]
            /\ UNCHANGED response
       ELSE IF t \notin categories
       THEN /\ response' = Resp("move", n, t, "404")
            /\ UNCHANGED inflight
       ELSE IF t = n
       THEN /\ response' = Resp("move", n, t, "400")
            /\ UNCHANGED inflight
       ELSE LET d == get_descendants(parent, n)
            IN  IF d.hang
                THEN /\ response' = Resp("move", n, t, "hang")
                     /\ UNCHANGED inflight
                ELSE IF t \in Range(d.list)
                THEN /\ response' = Resp("move", n, t, "400")
                     /\ UNCHANGED inflight
                ELSE /\ inflight' = [inflight EXCEPT ![w] =
                                         [pc |-> "save", node |-> n, target |-> t]]
                     /\ UNCHANGED response
    /\ UNCHANGED <<dbVars, bulk, graphVars>>

\* CategoryViewSet.move served by worker w, lines 115-118 and 132-135:
\* category.parent = new_parent; category.save(); the response.  A worker
\* whose response never renders stays in the request.
MoveSave(w) ==
    /\ inflight[w].pc = "save"
    /\ parent' = [parent EXCEPT ![inflight[w].node] = inflight[w].target]
    /\ response' = Resp("move", inflight[w].node, inflight[w].target,
                        Rendered(parent', inflight[w].node))
    /\ inflight' = [inflight EXCEPT ![w] =
                        IF Rendered(parent', inflight[w].node) = "hang"
                        THEN [@ EXCEPT !.pc = "hung"] ELSE Idle]
    /\ UNCHANGED <<categories, nextId, similarities, bulk, graphVars>>

\* GET /categories/<n>/: CategoryDetailSerializer, whose depth field is
\* get_depth() and whose ancestors field is get_ancestors().
Retrieve(n) ==
    /\ IF n \notin categories
       THEN response' = [op |-> "retrieve", node |-> n, target |-> None,
                         status |-> "404"]
       ELSE LET d == get_depth(parent, n)
                a == get_ancestors(parent, n)
            IN  IF d.hang \/ a.hang
                THEN response' = [op |-> "retrieve", node |-> n,
                                  target |-> None, status |-> "hang"]
                ELSE response' = [op |-> "retrieve", node |-> n,
                                  target |-> None, status |-> "200",
                                  depth |-> d.depth, ancestors |-> a.list]
    /\ UNCHANGED <<dbVars, bulk, inflight, graphVars>>

\* GET /categories/<n>/descendants/: get_descendants(), then the list
\* serializer, whose depth field walks up from every row of the list.
Descendants(n) ==
    /\ IF n \notin categories
       THEN response' = [op |-> "descendants", node |-> n, target |-> None,
                         status |-> "404"]
       ELSE LET d == get_descendants(parent, n)
            IN  IF d.hang \/ \E c \in Range(d.list) : get_depth(parent, c).hang
                THEN response' = [op |-> "descendants", node |-> n,
                                  target |-> None, status |-> "hang"]
                ELSE response' = [op |-> "descendants", node |-> n,
                                  target |-> None, status |-> "200",
                                  list |-> d.list]
    /\ UNCHANGED <<dbVars, bulk, inflight, graphVars>>

\* CascadeSet that stops at the deleted row and leaves what is below it.
CascadeSetRowOnly(par, S) == S

\* The rows on_delete=CASCADE removes with n: n and everything below it.
RECURSIVE CascadeSet(_, _)
CascadeSet(par, S) ==
    LET more == S \cup {c \in DOMAIN par : par[c] \in S}
    IN  IF more = S THEN S ELSE CascadeSet(par, more)

\* DELETE /categories/<n>/.
DeleteCategory(n) ==
    /\ IF n \notin categories
       THEN /\ response' = Resp("delete", n, None, "404")
            /\ UNCHANGED dbVars
       ELSE LET gone == CascadeSet(parent, {n})
                kept == {r \in DOMAIN similarities :
                             r[1] \notin gone /\ r[2] \notin gone}
            IN  /\ categories' = categories \ gone
                /\ parent' = [c \in categories \ gone |-> parent[c]]
                /\ similarities' = [r \in kept |-> similarities[r]]
                /\ response' = Resp("delete", n, None, "204")
                /\ UNCHANGED nextId
    /\ UNCHANGED <<bulk, inflight, graphVars>>

\* Model validation of category n with its parent field set to p
\* (full_clean, as the admin form runs it): Category.clean, nothing is saved.
FullClean(n, p) ==
    /\ n \in categories
    /\ p \in categories
    /\ response' = Resp("clean", n, p, Clean(parent, n, p))
    /\ UNCHANGED <<dbVars, bulk, inflight, graphVars>>

----------------------------------------------------------------------------
(* models.py: CategorySimilarity; serializers.py / views.py: its endpoints *)

\* CategorySimilarity.clean with the comparison of models.py:107 turned round.
SimilarityCleanInverted(a, b) ==
    IF a = b THEN [error |-> TRUE, row |-> <<a, b>>]
    ELSE IF a < b THEN [error |-> FALSE, row |-> <<b, a>>]
    ELSE [error |-> FALSE, row |-> <<a, b>>]

\* CategorySimilarity.clean: the row's two ids after the call, or the
\* self-similarity error.
SimilarityClean(a, b) ==
    IF a = b THEN [error |-> TRUE, row |-> <<a, b>>]
    ELSE IF a > b THEN [error |-> FALSE, row |-> <<b, a>>]
    ELSE [error |-> FALSE, row |-> <<a, b>>]

\* CategorySimilarity.save: clean(), then the INSERT, which unique_together
\* refuses (IntegrityError) when the same (category_a, category_b) is stored.
SimilaritySave(sims, a, b) ==
    LET c == SimilarityClean(a, b)
    IN  IF c.error \/ BagIn(c.row, sims)
        THEN [saved |-> FALSE, rows |-> sims]
        ELSE [saved |-> TRUE, rows |-> sims (+) SetToBag({c.row})]

\* CategorySimilarityCreateSerializer.validate: the validated data, or an error.
SimilarityValidate(cats, sims, cat_a_id, cat_b_id) ==
    IF cat_a_id = cat_b_id THEN [valid |-> FALSE, data |-> <<cat_a_id, cat_b_id>>]
    ELSE IF cat_a_id \notin cats \/ cat_b_id \notin cats
    THEN [valid |-> FALSE, data |-> <<cat_a_id, cat_b_id>>]
    ELSE LET data == IF cat_a_id > cat_b_id THEN <<cat_b_id, cat_a_id>>
                     ELSE <<cat_a_id, cat_b_id>>
         IN  [valid |-> ~BagIn(data, sims), data |-> data]

\* is_valid() and save() of one CategorySimilarityCreateSerializer:
\* "400" when validation fails, "500" when the INSERT fails, "201" when stored.
SimilarityRequest(cats, sims, a, b) ==
    LET v == SimilarityValidate(cats, sims, a, b)
    IN  IF ~v.valid THEN [status |-> "400", rows |-> sims]
        ELSE LET s == SimilaritySave(sims, v.data[1], v.data[2])
             IN  [status |-> IF s.saved THEN "201" ELSE "500", rows |-> s.rows]

\* POST /similarities/ {"category_a": a, "category_b": b}.
CreateSimilarity(a, b) ==
    /\ LET r == SimilarityRequest(categories, similarities, a, b)
       IN  /\ BagCardinality(r.rows) <= MaxRows
           /\ similarities' = r.rows
           /\ response' = Resp("similarity", a, b, r.status)
    /\ UNCHANGED <<categories, parent, nextId, bulk, inflight, graphVars>>

\* POST /similarities/bulk_create/: the loop of views.py:193-202 stores each
\* item on its own, so the model takes one step per item of the list.
BulkBegin ==
    /\ ~bulk.active
    /\ bulk' = [active |-> TRUE, created |-> 0, errors |-> 0]
    /\ UNCHANGED <<dbVars, response, inflight, graphVars>>

BulkItem(a, b) ==
    /\ bulk.active
    /\ bulk.created + bulk.errors < MaxBulk
    /\ LET r == SimilarityRequest(categories, similarities, a, b)
       IN  /\ BagCardinality(r.rows) <= MaxRows
           /\ similarities' = r.rows
           /\ bulk' = IF r.status = "201"
                      THEN [bulk EXCEPT !.created = @ + 1]
                      ELSE [bulk EXCEPT !.errors = @ + 1]
    /\ UNCHANGED <<categories, parent, nextId, response, inflight, graphVars>>

\* The response of bulk_create: node and target hold created_count and
\* error_count.
BulkEnd ==
    /\ bulk.active
    /\ response' = Resp("bulk_create", bulk.created, bulk.errors,
                        IF bulk.created > 0 THEN "201" ELSE "400")
    /\ bulk' = [active |-> FALSE, created |-> 0, errors |-> 0]
    /\ UNCHANGED <<dbVars, inflight, graphVars>>

----------------------------------------------------------------------------
(* hole_analysis_script.py: SimilarityGraph *)

\* self.graph[k] of the defaultdict(set): reading a missing key stores an
\* empty set under it.
Touch(g, k) == IF k \in DOMAIN g THEN g ELSE g @@ (k :> {})

\* self.graph[x].add(y)
AddNeighbor(g, x, y) ==
    LET g1 == Touch(g, x) IN [g1 EXCEPT ![x] = @ \cup {y}]

\* AddEdges storing each row in one direction only (no line 42).
RECURSIVE AddEdgesOneWay(_, _)
AddEdgesOneWay(g, rows) ==
    IF rows = {} THEN g
    ELSE LET sim == CHOOSE r \in rows : TRUE
         IN  AddEdgesOneWay(AddNeighbor(Touch(g, sim[2]), sim[1], sim[2]),
                            rows \ {sim})

\* The loop of lines 39-42 over the stored rows.
RECURSIVE AddEdges(_, _)
AddEdges(g, rows) ==
    IF rows = {} THEN g
    ELSE LET sim == CHOOSE r \in rows : TRUE
         IN  AddEdges(AddNeighbor(AddNeighbor(g, sim[1], sim[2]), sim[2], sim[1]),
                      rows \ {sim})

\* build_from_db without the loop of lines 30-32 that gives every category a key.
build_from_db_EdgesOnly(cats, sims) ==
    [categories |-> Ascending(cats),
     graph |-> AddEdges(<<>>, BagToSet(sims))]

\* build_from_db: a key with an empty set for every category, then the edges.
\* Category.objects.all() lists the categories by name; the model names them
\* so that name order is id order.
build_from_db(cats, sims) ==
    [categories |-> Ascending(cats),
     graph |-> AddEdges([c \in cats |-> {}], BagToSet(sims))]

\* bfs_shortest_path, lines 57-66.  `order` is the order in which the sets of
\* this run list their members; queue holds <<node, path>> pairs.
RECURSIVE BfsLoop(_, _, _, _, _)
RECURSIVE BfsNeighbors(_, _, _, _, _, _, _)
\* BfsNeighbors queueing the path it was given instead of path + [neighbor].
RECURSIVE BfsNeighborsStalePath(_, _, _, _, _, _, _)
BfsNeighborsStalePath(g, end_id, neighbors, path, queue, visited, order) ==
    IF neighbors = <<>> THEN BfsLoop(g, end_id, queue, visited, order)
    ELSE LET neighbor == Head(neighbors)
         IN  IF neighbor = end_id
             THEN [found |-> TRUE, path |-> Append(path, neighbor), graph |-> g]
             ELSE IF neighbor \notin visited
             THEN BfsNeighborsStalePath(g, end_id, Tail(neighbors), path,
                                        Append(queue, <<neighbor, path>>),
                                        visited \cup {neighbor}, order)
             ELSE BfsNeighborsStalePath(g, end_id, Tail(neighbors), path, queue,
                                        visited, order)

BfsLoop(g, end_id, queue, visited, order) ==
    IF queue = <<>> THEN [found |-> FALSE, path |-> <<>>, graph |-> g]
    ELSE LET current == Head(queue)[1]
             path == Head(queue)[2]
             g1 == Touch(g, current)
         IN  BfsNeighbors(g1, end_id, Listed(g1[current], order), path,
                          Tail(queue), visited, order)

BfsNeighbors(g, end_id, neighbors, path, queue, visited, order) ==
    IF neighbors = <<>> THEN BfsLoop(g, end_id, queue, visited, order)
    ELSE LET neighbor == Head(neighbors)
         IN  IF neighbor = end_id
             THEN [found |-> TRUE, path |-> Append(path, neighbor), graph |-> g]
             ELSE IF neighbor \notin visited
             THEN BfsNeighbors(g, end_id, Tail(neighbors), path,
                               Append(queue, <<neighbor, Append(path, neighbor)>>),
                               visited \cup {neighbor}, order)
             ELSE BfsNeighbors(g, end_id, Tail(neighbors), path, queue,
                               visited, order)

\* bfs_shortest_path without the test of lines 51-52 (start_id == end_id).
bfs_shortest_path_NoShortcut(g, start_id, end_id, order) ==
    BfsLoop(g, end_id, <<<<start_id, <<start_id>>>>>>, {start_id}, order)

\* bfs_shortest_path: found = FALSE stands for the returned None.
bfs_shortest_path(g, start_id, end_id, order) ==
    IF start_id = end_id
    THEN [found |-> TRUE, path |-> <<start_id>>, graph |-> g]
    ELSE BfsLoop(g, end_id, <<<<start_id, <<start_id>>>>>>, {start_id}, order)

\* IslandLoop that never queues the neighbours it finds (line 90 left out).
RECURSIVE IslandLoopNoEnqueue(_, _, _, _, _)
IslandLoopNoEnqueue(g, queue, island, visited, order) ==
    IF queue = <<>> THEN [island |-> island, visited |-> visited, graph |-> g]
    ELSE LET current == Head(queue)
             g1 == Touch(g, current)
             fresh == Listed(g1[current] \ visited, order)
         IN  IslandLoopNoEnqueue(g1, Tail(queue), island \cup Range(fresh),
                                 visited \cup Range(fresh), order)

\* find_all_islands, the flood fill of lines 83-90 from one category.
RECURSIVE IslandLoop(_, _, _, _, _)
IslandLoop(g, queue, island, visited, order) ==
    IF queue = <<>> THEN [island |-> island, visited |-> visited, graph |-> g]
    ELSE LET current == Head(queue)
             g1 == Touch(g, current)
             fresh == Listed(g1[current] \ visited, order)
         IN  IslandLoop(g1, Tail(queue) \o fresh, island \cup Range(fresh),
                        visited \cup Range(fresh), order)

\* find_all_islands, the loop of lines 75-92 over self.categories.
RECURSIVE IslandsFrom(_, _, _, _, _)
IslandsFrom(g, cats, visited, islands, order) ==
    IF cats = <<>> THEN [islands |-> islands, graph |-> g]
    ELSE LET cat_id == Head(cats)
         IN  IF cat_id \in visited
             THEN IslandsFrom(g, Tail(cats), visited, islands, order)
             ELSE LET r == IslandLoop(g, <<cat_id>>, {cat_id},
                                      visited \cup {cat_id}, order)
                  IN  IslandsFrom(r.graph, Tail(cats), r.visited,
                                  Append(islands, r.island), order)

find_all_islands(g, cats, order) == IslandsFrom(g, cats, {}, <<>>, order)

\* find_longest_rabbit_hole, the search of lines 116-123 from one start:
\* distances lists <<node, distance>> in the order the dict received them.
RECURSIVE HoleBfs(_, _, _, _, _, _)
HoleBfs(g, island, queue, distances, parentOf, order) ==
    IF queue = <<>> THEN [distances |-> distances, parent |-> parentOf, graph |-> g]
    ELSE LET current == Head(queue)
             g1 == Touch(g, current)
             known == {d[1] : d \in Range(distances)}
             dcur == (CHOOSE d \in Range(distances) : d[1] = current)[2]
             fresh == Listed((g1[current] \ known) \cap island, order)
         IN  HoleBfs(g1, island, Tail(queue) \o fresh,
                     distances \o [i \in 1..Len(fresh) |-> <<fresh[i], dcur + 1>>],
                     parentOf @@ [n \in Range(fresh) |-> current], order)

\* max(distances) without key=distances.get: the greatest id.
FarthestByKey(distances) == Max({d[1] : d \in Range(distances)})

\* max(distances, key=distances.get): the first key holding the greatest value.
Farthest(distances) ==
    LET best == Max({d[2] : d \in Range(distances)})
    IN  distances[Min({i \in 1..Len(distances) : distances[i][2] = best})][1]

\* The walk of lines 132-134 stopping one node early (the start is left out).
RECURSIVE PathToWithoutStart(_, _)
PathToWithoutStart(parentOf, current) ==
    IF parentOf[current] = None THEN <<>>
    ELSE Append(PathToWithoutStart(parentOf, parentOf[current]), current)

\* Lines 130-135: the path from the start to `current` along parent[].
RECURSIVE PathTo(_, _)
PathTo(parentOf, current) ==
    IF current = None THEN <<>>
    ELSE Append(PathTo(parentOf, parentOf[current]), current)

\* The loop of lines 111-138 over the starts of one island.
RECURSIVE HoleStarts(_, _, _, _, _)
HoleStarts(g, island, starts, best, order) ==
    IF starts = <<>> THEN [best |-> best, graph |-> g]
    ELSE LET start == Head(starts)
             r == HoleBfs(g, island, <<start>>, <<<<start, 0>>>>,
                          (start :> None), order)
             farthest == Farthest(r.distances)
             max_dist == (CHOOSE d \in Range(r.distances) : d[1] = farthest)[2]
         IN  IF max_dist > best.length
             THEN HoleStarts(r.graph, island, Tail(starts),
                             [path |-> PathTo(r.parent, farthest),
                              length |-> max_dist], order)
             ELSE HoleStarts(r.graph, island, Tail(starts), best, order)

\* HoleIslands skipping islands of two nodes as well (len(island) <= 2).
RECURSIVE HoleIslandsSkipPairs(_, _, _, _)
HoleIslandsSkipPairs(g, islands, best, order) ==
    IF islands = <<>> THEN [path |-> best.path, length |-> best.length, graph |-> g]
    ELSE LET island == Head(islands)
         IN  IF Cardinality(island) <= 2
             THEN HoleIslandsSkipPairs(g, Tail(islands), best, order)
             ELSE LET r == HoleStarts(g, island, Listed(island, order), best, order)
                  IN  HoleIslandsSkipPairs(r.graph, Tail(islands), r.best, order)

\* The loop of lines 104-138 over the islands.
RECURSIVE HoleIslands(_, _, _, _)
HoleIslands(g, islands, best, order) ==
    IF islands = <<>> THEN [path |-> best.path, length |-> best.length, graph |-> g]
    ELSE LET island == Head(islands)
         IN  IF Cardinality(island) < 2
             THEN HoleIslands(g, Tail(islands), best, order)
             ELSE LET r == HoleStarts(g, island, Listed(island, order), best, order)
                  IN  HoleIslands(r.graph, Tail(islands), r.best, order)

find_longest_rabbit_hole(g, cats, order) ==
    LET i == find_all_islands(g, cats, order)
    IN  HoleIslands(i.graph, i.islands, [path |-> <<>>, length |-> 0], order)

\* The orders in which a run may list the members of its sets: the orders of
\* the ids that are in a neighbour set or have one to list.
SetOrders ==
    Perms({k \in DOMAIN graph : graph[k] # {}}
              \cup UNION {graph[k] : k \in DOMAIN graph})

\* build_from_db, lines 29-32, run beside the API: the first query lists the
\* categories and gives each a key.
BuildReadCategories ==
    /\ result.op = "init"
    /\ graphCategories' = Ascending(categories)
    /\ graph' = [c \in categories |-> {}]
    /\ result' = [op |-> "categories_read"]
    /\ UNCHANGED <<dbVars, response, bulk, inflight>>

\* build_from_db, lines 35-46: the second query lists the rows stored by
\* then, and the loop adds both directions of each; the build returns self.
BuildReadSimilarities ==
    /\ result.op = "categories_read"
    /\ graph' = AddEdges(graph, BagToSet(similarities))
    /\ result' = [op |-> "ready"]
    /\ UNCHANGED <<dbVars, response, bulk, inflight, graphCategories>>

\* graph = SimilarityGraph().build_from_db()
BuildFromDb ==
    /\ result.op = "init"
    /\ LET b == build_from_db(categories, similarities)
       IN  /\ graph' = b.graph
           /\ graphCategories' = b.categories
    /\ result' = [op |-> "ready"]
    /\ UNCHANGED <<dbVars, response, bulk, inflight>>

BfsShortestPath(start_id, end_id) ==
    /\ result.op = "ready"
    /\ \E order \in SetOrders :
         LET r == bfs_shortest_path(graph, start_id, end_id, order)
         IN  /\ graph' = r.graph
             /\ result' = [op |-> "bfs_shortest_path", start |-> start_id,
                           end |-> end_id, found |-> r.found, path |-> r.path]
    /\ UNCHANGED <<dbVars, response, bulk, inflight, graphCategories>>

FindAllIslands ==
    /\ result.op = "ready"
    /\ \E order \in SetOrders :
         LET r == find_all_islands(graph, graphCategories, order)
         IN  /\ graph' = r.graph
             /\ result' = [op |-> "find_all_islands", islands |-> r.islands]
    /\ UNCHANGED <<dbVars, response, bulk, inflight, graphCategories>>

FindLongestRabbitHole ==
    /\ result.op = "ready"
    /\ \E order \in SetOrders :
         LET r == find_longest_rabbit_hole(graph, graphCategories, order)
         IN  /\ graph' = r.graph
             /\ result' = [op |-> "find_longest_rabbit_hole",
                           path |-> r.path, length |-> r.length]
    /\ UNCHANGED <<dbVars, response, bulk, inflight, graphCategories>>

\* main() prints a returned value and goes on to the next call.
Discard ==
    /\ result.op \notin {"init", "ready"}
    /\ result' = [op |-> "ready"]
    /\ UNCHANGED <<dbVars, response, bulk, inflight, graph, graphCategories>>

----------------------------------------------------------------------------

Init ==
    /\ categories = {}
    /\ parent = <<>>
    /\ nextId = 1
    /\ similarities = EmptyBag
    /\ response = Resp("none", None, None, "none")
    /\ bulk = [active |-> FALSE, created |-> 0, errors |-> 0]
    /\ inflight = [w \in Workers |-> Idle]
    /\ graph = <<>>
    /\ graphCategories = <<>>
    /\ result = [op |-> "init"]

Next ==
    \/ \E p \in Ids \cup {None} : CreateCategory(p)
    \/ \E n \in Ids, p \in Ids \cup {None} : UpdateCategory(n, p)
    \/ \E n \in Ids, t \in Ids \cup {None} : Move(n, t)
    \/ \E n \in Ids : DeleteCategory(n)
    \/ \E n \in Ids, p \in Ids : FullClean(n, p)
    \/ \E n \in Ids : Retrieve(n)
    \/ \E n \in Ids : Descendants(n)

Spec == Init /\ [][Next]_vars

\* The similarity endpoints on a catalog that grows and shrinks.
SimNext ==
    \/ CreateCategory(None)
    \/ \E n \in Ids : DeleteCategory(n)
    \/ \E a \in Ids, b \in Ids : CreateSimilarity(a, b)
    \/ BulkBegin
    \/ \E a \in Ids, b \in Ids : BulkItem(a, b)
    \/ BulkEnd

SimSpec == Init /\ [][SimNext]_vars

\* The catalog under creates, moves, deletes and similarity creates.
CatalogNext ==
    \/ \E p \in Ids \cup {None} : CreateCategory(p)
    \/ \E n \in Ids, t \in Ids \cup {None} : Move(n, t)
    \/ \E n \in Ids : DeleteCategory(n)
    \/ \E a, b \in Ids : CreateSimilarity(a, b)

CatalogSpec == Init /\ [][CatalogNext]_vars

\* Move requests served by two workers whose steps interleave.
ConcNext ==
    \/ \E p \in Ids \cup {None} : CreateCategory(p)
    \/ \E w \in Workers, n \in Ids, t \in Ids \cup {None} : MoveValidate(w, n, t)
    \/ \E w \in Workers : MoveSave(w)

ConcSpec == Init /\ [][ConcNext]_vars

\* The build of the graph while the API goes on creating categories and rows.
RaceNext ==
    \/ CreateCategory(None)
    \/ \E a, b \in Ids : CreateSimilarity(a, b)
    \/ BuildReadCategories
    \/ BuildReadSimilarities

RaceSpec == Init /\ [][RaceNext]_vars

\* The analysis of a stored catalog: categories 1..n and any set of canonical
\* similarity rows between them.
GraphInit ==
    \E n \in 0..MaxNode :
    \E E \in SUBSET {r \in (1..n) \X (1..n) : r[1] < r[2]} :
        /\ Cardinality(E) <= MaxEdges
        /\ categories = 1..n
        /\ parent = [c \in 1..n |-> None]
        /\ nextId = n + 1
        /\ similarities = SetToBag(E)
        /\ response = Resp("none", None, None, "none")
        /\ bulk = [active |-> FALSE, created |-> 0, errors |-> 0]
        /\ inflight = [w \in Workers |-> Idle]
        /\ graph = <<>>
        /\ graphCategories = <<>>
        /\ result = [op |-> "init"]

GraphNext ==
    \/ BuildFromDb
    \/ \E s \in 1..MaxNode, e \in 1..MaxNode : BfsShortestPath(s, e)
    \/ FindAllIslands
    \/ FindLongestRabbitHole
    \/ Discard

GraphSpec == GraphInit /\ [][GraphNext]_vars

----------------------------------------------------------------------------
(* Notions the properties are stated in *)

\* The ids reached from id c by following parent links upward, c's parent first.
RECURSIVE UpFrom(_, _, _)
UpFrom(par, c, seen) ==
    IF c = None \/ c \notin DOMAIN par \/ c \in seen THEN seen
    ELSE UpFrom(par, par[c], seen \cup {c})

StrictAncestors(par, c) == UpFrom(par, par[c], {})

Acyclic(par) == \A c \in DOMAIN par : c \notin StrictAncestors(par, c)

----------------------------------------------------------------------------
(* Properties of the category endpoints (Spec) *)

\* C1: after any sequence of create, update and move requests no category is
\* its own parent and none is reached from itself along parent links.
C1_ParentRelationAcyclic == Acyclic(parent)

\* C2: on an acyclic tree a move of n under an existing t answers 400 and
\* assigns nothing exactly when t is n or t is in get_descendants(n); every
\* other existing t is accepted and becomes n's parent.
C2_MoveRejectsSelfAndDescendantsOnly ==
    [][(/\ response'.op = "move"
        /\ response'.node \in categories
        /\ response'.target \in categories
        /\ Acyclic(parent))
       => LET n == response'.node
              t == response'.target
          IN  IF t = n \/ t \in Range(get_descendants(parent, n).list)
              THEN response'.status = "400" /\ parent' = parent
              ELSE /\ response'.status = "200"
                   /\ parent' = [parent EXCEPT ![n] = t]]_vars

\* C2 witness: on an acyclic tree a move under a descendant was answered 400.
C2_Witness ==
    /\ Acyclic(parent)
    /\ response.op = "move" /\ response.status = "400"
    /\ response.node \in categories
    /\ response.target # response.node
    /\ response.target \in Range(get_descendants(parent, response.node).list)

\* C16: a move answered 404 or 400 (the new parent does not exist, is the
\* category itself or is one of its descendants) leaves every category's
\* parent as it was; a move answered 200, a move to null included, sets the
\* moved category's parent to the target and changes no other parent.
C16_MoveFrame ==
    [][response'.op = "move" =>
          /\ response'.status \in {"400", "404"} => parent' = parent
          /\ response'.status = "200" =>
                 /\ DOMAIN parent' = DOMAIN parent
                 /\ parent'[response'.node] = response'.target
                 /\ \A c \in DOMAIN parent :
                        c # response'.node => parent'[c] = parent[c]]_vars

\* C16 witness: a move to null was answered 200 and made its category a
\* root while another category kept the parent it had.
C16_Witness ==
    /\ response.op = "move" /\ response.status = "200"
    /\ response.target = None
    /\ response.node \in categories
    /\ parent[response.node] = None
    /\ \E c \in categories : parent[c] # None /\ parent[c] # response.node

\* C3: Category.clean raises the self-parent error when the proposed parent
\* is the category, the circular-reference error when the category is reached
\* walking up from the proposed parent, and otherwise returns.
C3_CleanOutcome ==
    response.op = "clean" =>
        response.status =
            IF response.target = response.node THEN "self_parent"
            ELSE IF response.node \in UpFrom(parent, response.target, {})
                 THEN "circular"
            ELSE "ok"

\* C17: on an acyclic tree the list get_descendants(n) returned holds every
\* category that has n among its ancestors exactly once and nothing else, n
\* itself never: d is in the list if and only if n is in get_ancestors(d).
C17_DescendantsAreThoseBelow ==
    (/\ response.op = "descendants"
     /\ response.node \in categories
     /\ Acyclic(parent))
        => /\ response.status = "200"
           /\ \A i, j \in DOMAIN response.list :
                  response.list[i] = response.list[j] => i = j
           /\ response.node \notin Range(response.list)
           /\ Range(response.list) =
                  {d \in categories : response.node \in StrictAncestors(parent, d)}
           /\ \A d \in categories :
                  d \in Range(response.list)
                      <=> response.node \in Range(get_ancestors(parent, d).list)

\* C17 witness: the descendants of a category with a child and a grandchild.
C17_Witness ==
    /\ response.op = "descendants" /\ response.status = "200"
    /\ Acyclic(parent)
    /\ Len(response.list) = 2
    /\ parent[response.list[1]] = response.node
    /\ parent[response.list[2]] = response.list[1]

\* C18: on an acyclic tree get_ancestors(n) is the chain of parents, root
\* first: empty for a root; otherwise its first element has no parent, each
\* element is the parent of the next and the last is n's parent.  get_depth(n)
\* is the length of the chain.
C18_AncestorsRootFirst ==
    (/\ response.op = "retrieve"
     /\ response.node \in categories
     /\ Acyclic(parent))
        => /\ response.status = "200"
           /\ LET a == response.ancestors
              IN  /\ (parent[response.node] = None) <=> (a = <<>>)
                  /\ a # <<>> =>
                        /\ parent[a[1]] = None
                        /\ a[Len(a)] = parent[response.node]
                        /\ \A i \in 1..(Len(a) - 1) : parent[a[i + 1]] = a[i]
                  /\ response.depth = Len(a)

\* C18 witness: a category two levels below a root was retrieved.
C18_Witness ==
    /\ response.op = "retrieve" /\ response.status = "200"
    /\ Acyclic(parent)
    /\ Len(response.ancestors) = 2
    /\ response.depth = 2

\* C20: in every catalog the category requests reach, Category.clean,
\* get_ancestors, get_depth and get_descendants terminate for every category.
C20_WalksTerminate ==
    \A n \in categories :
        /\ Clean(parent, n, parent[n]) # "hang"
        /\ ~get_ancestors(parent, n).hang
        /\ ~get_depth(parent, n).hang
        /\ ~get_descendants(parent, n).hang

----------------------------------------------------------------------------
(* Properties of the similarity endpoints (SimSpec) *)

\* C10: every stored similarity row has category_a < category_b and no
\* unordered pair of categories is stored in more than one row.
C10_RowsCanonicalAndUnique ==
    \A r \in BagToSet(similarities) :
        /\ r[1] < r[2]
        /\ similarities[r] = 1
        /\ ~BagIn(<<r[2], r[1]>>, similarities)

\* C10 witness: a stored pair was submitted again in reversed order and refused.
C10_Witness ==
    /\ response.op = "similarity" /\ response.status = "400"
    /\ response.node > response.target
    /\ BagIn(<<response.target, response.node>>, similarities)
    /\ ~BagIn(<<response.node, response.target>>, similarities)

----------------------------------------------------------------------------
(* Notions of the similarity graph the properties are stated in *)

Nodes == Range(graphCategories)

Neighbours(g, v) == IF v \in DOMAIN g THEN g[v] ELSE {}

\* The ids a path of similarity edges joins to a member of S.
RECURSIVE Reachable(_, _)
Reachable(g, S) ==
    LET more == S \cup UNION {Neighbours(g, v) : v \in S}
    IN  IF more = S THEN S ELSE Reachable(g, more)

Component(g, v) == Reachable(g, {v})

\* Fewest hops from the set `frontier` (at distance d) to b; b is reachable.
RECURSIVE HopsFrom(_, _, _, _, _)
HopsFrom(g, frontier, seen, d, b) ==
    IF b \in frontier THEN d
    ELSE LET next == UNION {Neighbours(g, v) : v \in frontier} \ seen
         IN  HopsFrom(g, next, seen \cup next, d + 1, b)

Distance(g, a, b) == HopsFrom(g, {a}, {a}, 0, b)

Eccentricity(g, v) == Max({Distance(g, v, w) : w \in Component(g, v)})

BigIslandNodes(g) == {v \in Nodes : Cardinality(Component(g, v)) >= 2}

IsPath(g, p) == \A i \in 1..(Len(p) - 1) : p[i + 1] \in Neighbours(g, p[i])

----------------------------------------------------------------------------
(* Properties of the analysis (GraphSpec) *)

\* C4: find_all_islands returns exactly the connected components: every
\* category is in exactly one island, islands are disjoint, and two ids share
\* an island exactly when similarity edges join them.
C4_IslandsAreTheComponents ==
    result.op = "find_all_islands" =>
        LET islands == result.islands
        IN  /\ UNION Range(islands) = Nodes
            /\ \A c \in Nodes :
                 Cardinality({i \in 1..Len(islands) : c \in islands[i]}) = 1
            /\ \A i, j \in 1..Len(islands) :
                 i # j => islands[i] \cap islands[j] = {}
            /\ \A i \in 1..Len(islands) :
                 \A a \in islands[i], b \in Nodes :
                     b \in islands[i] <=> b \in Component(graph, a)

\* C4 witness: nodes {1,2,3,4} with edges (1,2), (2,3) gave {1,2,3} and {4}.
C4_Witness ==
    /\ result.op = "find_all_islands"
    /\ Nodes = {1, 2, 3, 4}
    /\ BagToSet(similarities) = {<<1, 2>>, <<2, 3>>}
    /\ Range(result.islands) = {{1, 2, 3}, {4}}

\* C5: for connected start and end, bfs_shortest_path returns a sequence from
\* start to end along similarity edges with the fewest hops possible, and
\* [start] when start = end.
C5_ShortestPathIsShortest ==
    (/\ result.op = "bfs_shortest_path"
     /\ result.start \in Nodes /\ result.end \in Nodes
     /\ result.end \in Component(graph, result.start))
    => /\ result.found
       /\ result.path # <<>>
       /\ result.path[1] = result.start
       /\ result.path[Len(result.path)] = result.end
       /\ IsPath(graph, result.path)
       /\ Len(result.path) - 1 = Distance(graph, result.start, result.end)
       /\ result.start = result.end => result.path = <<result.start>>

\* C5 witness: in a triangle, where a two-hop route exists as well, the
\* one-hop path was returned.
C5_Witness ==
    /\ result.op = "bfs_shortest_path"
    /\ BagToSet(similarities) = {<<1, 2>>, <<1, 3>>, <<2, 3>>}
    /\ result.start = 1 /\ result.end = 3
    /\ result.found /\ result.path = <<1, 3>>

\* C6: bfs_shortest_path returns None exactly when start and end lie in
\* different islands of find_all_islands, and never returns an empty list.
C6_NoneIffDifferentIslands ==
    (/\ result.op = "bfs_shortest_path"
     /\ result.start \in Nodes /\ result.end \in Nodes)
    => LET islands == find_all_islands(graph, graphCategories,
                                       Ascending(Nodes)).islands
       IN  /\ ~result.found <=>
                 ~\E i \in 1..Len(islands) :
                      result.start \in islands[i] /\ result.end \in islands[i]
           /\ result.found => result.path # <<>>

\* C6 witness: with a cycle 1-2-3 in the graph and 4 apart from it, the
\* search from 1 to 4 ended with None.
C6_Witness ==
    /\ result.op = "bfs_shortest_path"
    /\ BagToSet(similarities) = {<<1, 2>>, <<1, 3>>, <<2, 3>>}
    /\ Nodes = {1, 2, 3, 4}
    /\ result.start = 1 /\ result.end = 4
    /\ ~result.found

\* C7: the length find_longest_rabbit_hole returns is the greatest
\* eccentricity of a node in an island of two or more nodes, whichever order
\* the islands, their members and the neighbour sets are listed in.
C7_LengthIsMaxEccentricity ==
    (result.op = "find_longest_rabbit_hole" /\ BigIslandNodes(graph) # {})
    => result.length = Max({Eccentricity(graph, v) : v \in BigIslandNodes(graph)})

\* C7 witness: a graph whose nodes have different eccentricities (a chain of
\* four) gave length 3.
C7_Witness ==
    /\ result.op = "find_longest_rabbit_hole"
    /\ result.length = 3
    /\ \E v \in BigIslandNodes(graph) : Eccentricity(graph, v) = 2

\* C8: a non-empty path returned by find_longest_rabbit_hole repeats no id,
\* follows similarity edges, has as many hops as the returned length, and no
\* shorter path joins its ends.
C8_HolePathIsShortestPath ==
    (result.op = "find_longest_rabbit_hole" /\ result.path # <<>>)
    => LET p == result.path
       IN  /\ \A i, j \in 1..Len(p) : i # j => p[i] # p[j]
           /\ IsPath(graph, p)
           /\ Len(p) - 1 = result.length
           /\ p[Len(p)] \in Component(graph, p[1])
           /\ Distance(graph, p[1], p[Len(p)]) = Len(p) - 1

\* C8 witness: nodes {1,2,3,4} with edges (1,2), (2,3) gave [1,2,3] or
\* [3,2,1], length 2.
C8_Witness ==
    /\ result.op = "find_longest_rabbit_hole"
    /\ Nodes = {1, 2, 3, 4}
    /\ BagToSet(similarities) = {<<1, 2>>, <<2, 3>>}
    /\ result.path \in {<<1, 2, 3>>, <<3, 2, 1>>}
    /\ result.length = 2

\* C9: find_longest_rabbit_hole returns the empty path with length 0 exactly
\* when no island has two or more nodes, that is when there is no similarity
\* edge; with an edge it returns a non-empty path of length >= 1.
C9_EmptyIffNoEdge ==
    result.op = "find_longest_rabbit_hole" =>
        LET empty == result.path = <<>> /\ result.length = 0
            noEdge == \A v \in DOMAIN graph : graph[v] = {}
        IN  /\ empty <=> BigIslandNodes(graph) = {}
            /\ empty <=> noEdge
            /\ ~noEdge => result.path # <<>> /\ result.length >= 1

\* C9 witness: nodes {1,2} without an edge gave the empty path and length 0.
C9_Witness ==
    /\ result.op = "find_longest_rabbit_hole"
    /\ Nodes = {1, 2}
    /\ similarities = EmptyBag
    /\ result.path = <<>> /\ result.length = 0

\* C11: the adjacency map build_from_db produces is symmetric and has a key
\* for every category, with an empty set for a category in no similarity row.
C11_BuiltGraphSymmetricAndTotal ==
    result.op # "init" =>
        /\ \A x \in DOMAIN graph : \A y \in graph[x] :
               y \in DOMAIN graph /\ x \in graph[y]
        /\ \A c \in categories :
               /\ c \in DOMAIN graph
               /\ (\A r \in BagToSet(similarities) : c # r[1] /\ c # r[2])
                      => graph[c] = {}
        /\ \A r \in BagToSet(similarities) :
               r[2] \in graph[r[1]] /\ r[1] \in graph[r[2]]

\* C11 witness: a graph was built from a catalog holding a similarity row and
\* a category that is in no row.
C11_Witness ==
    /\ result.op = "ready"
    /\ BagToSet(similarities) = {<<1, 2>>}
    /\ categories = {1, 2, 3}
    /\ graph[3] = {} /\ graph[1] = {2} /\ graph[2] = {1}

\* C14: a call of bfs_shortest_path, find_all_islands or
\* find_longest_rabbit_hole leaves the adjacency map (its keys and every
\* neighbour set) and the category table as they were.
C14_AnalysisLeavesGraphUnchanged ==
    [][result'.op \in {"bfs_shortest_path", "find_all_islands",
                       "find_longest_rabbit_hole"}
           => graph' = graph /\ graphCategories' = graphCategories]_vars

\* C15: for ids a and b of the graph, bfs_shortest_path(a, b) returns a path
\* if and only if bfs_shortest_path(b, a) does, and the two paths have the
\* same number of hops.  The returned value of every call from a to b, in
\* whatever order it listed its sets, is compared with the call from b to a.
C15_PathSymmetric ==
    (/\ result.op = "bfs_shortest_path"
     /\ result.start \in Range(graphCategories)
     /\ result.end \in Range(graphCategories))
        => LET back == bfs_shortest_path(graph, result.end, result.start,
                                         CHOOSE order \in SetOrders : TRUE)
           IN  /\ back.found = result.found
               /\ result.found => Len(back.path) = Len(result.path)

\* A call from a higher id to a lower one returned a path of two hops.
C15_Witness ==
    /\ result.op = "bfs_shortest_path"
    /\ result.start \in Range(graphCategories)
    /\ result.end \in Range(graphCategories)
    /\ result.start > result.end
    /\ result.found /\ Len(result.path) = 3

----------------------------------------------------------------------------
(* Properties of concurrent move requests (ConcSpec) *)

\* C19: when two move requests whose validation and save interleave have
\* both run their validation and their save (no request is between the two),
\* the parent relation is still acyclic.
C19_ConcurrentMovesKeepAcyclic ==
    (\A w \in Workers : inflight[w].pc # "save") => Acyclic(parent)

----------------------------------------------------------------------------
(* Properties of the graph build beside a live catalog (RaceSpec) *)

\* C12: a build that returns has accepted no offending edge: every key of the
\* adjacency map and every member of a neighbour set is one of the category
\* ids the build was given, and no key is its own neighbour.
C12_NoOffendingEdgeAccepted ==
    result.op = "ready" =>
        \A x \in DOMAIN graph :
            /\ x \in Range(graphCategories)
            /\ \A y \in graph[x] : y \in Range(graphCategories) /\ y # x

----------------------------------------------------------------------------
(* Properties of the stored catalog (CatalogSpec) *)

\* C13: every stored similarity row has both endpoints among the existing
\* categories, and every category's non-null parent is an existing category.
C13_ReferencesExist ==
    /\ \A r \in BagToSet(similarities) :
           r[1] \in categories /\ r[2] \in categories
    /\ DOMAIN parent = categories
    /\ \A c \in categories : parent[c] # None => parent[c] \in categories

\* A delete answered 204 has left category 1 alone of all the categories
\* created, and no row: the deletes took the others and their rows with them.
C13_Witness ==
    /\ response.op = "delete" /\ response.status = "204"
    /\ nextId = MaxCat + 1
    /\ categories = {1}
    /\ similarities = EmptyBag

====
